---------------------------- MODULE Spec2Model ----------------------------
(***************************************************************************)
(* A model of the segmentation and export engine of mp3-slice-and-dice:    *)
(* the split-point list of the editors (VideoEditor.tsx, AudioEditor.tsx),  *)
(* the derived segment list (getSegments), and the export pipeline built   *)
(* on ffmpeg.wasm.                                                          *)
(*                                                                         *)
(* Times are integers (seconds).  A split point is a record                *)
(* [id, time, label]; the label "Split N" is modelled by the number N.     *)
(* Math.random().toString(36) is modelled as a fresh id drawn from a       *)
(* counter.                                                                *)
(*                                                                         *)
(* An export is a process that advances from one await to the next.  An    *)
(* FFmpeg instance is named by the process whose ensureFfmpeg made it; it   *)
(* has a file system (fs) and a worker that serves the calls posted to it   *)
(* in order (queue).  ffmpeg.exec resolves whether or not the encoder      *)
(* wrote its output; a failed run shows as a missing file at readFile.     *)
(* delivered, outcome and errors record, per process, the downloads, the   *)
(* result and the error toasts of its current or last invocation.          *)
(***************************************************************************)
EXTENDS Integers, Sequences, FiniteSets, TLC

\* ------------------------------------------------------------------ bounds
\* Largest media duration handleLoadedMetadata may report.
MaxDuration == 2
\* Number of ids Math.random can hand out in one run (caps addSplitPoint).
MaxIds == 2
\* Number of export invocations (downloadSegments, downloadSingleSegment)
\* started in one run of the export specification.
MaxExports == 2
\* Largest number of split points present at once in the export specification.
MaxPoints == 1

\* Time arguments handed to addSplitPoint / updateSplitPoint: from below 0
\* to above the largest duration.
TimeArgs == (0 - 1)..(MaxDuration + 1)
\* Id arguments: ids that were handed out and ids that never were.
IdArgs == 1..(MaxIds + 1)
\* Segment indices handed to deleteSegment: 0 and one past the largest count.
IndexArgs == 0..(MaxIds + 2)
\* Times at which the export specification places split points: the interior
\* of the media and its end (a point at the end makes the last segment empty).
ExportTimes == 1..MaxDuration

\* The processes of an editor: the effect that preloads the encoder ("mount":
\* the mount effect of VideoEditor, the selectedFormat effect of AudioEditor),
\* downloadSegments ("all"; "all2" is a second, overlapping invocation in the
\* audio editor) and downloadSingleSegment ("single").
Procs == {"mount", "all", "all2", "single"}

VARIABLES
    duration,      \* useState(0): media duration, 0 until loadedmetadata
    splitPoints,   \* useState<SplitPoint[]>([])
    nextId,        \* the next fresh id of Math.random().toString(36)
    lastCall,      \* the last split-point operation called, its arguments and the list before it
    editor,        \* which editor component is mounted: "video" or "audio"
    selectedFormat,       \* AudioEditor: useState<'wav' | 'mp3'>('wav')
    audioBuffer,          \* AudioEditor: the decoded buffer is there (TRUE) or null (FALSE)
    ffmpegRef,            \* ffmpegRef.current: the instance (named by the process that made it) or "none"
    isFfmpegLoading,      \* useState(false)
    isEncoding,           \* useState(false)
    processingProgress,   \* useState(0): <<numerator, denominator>> of the percentage
    isStartingDownload,   \* useState(false)
    buttonClicked,        \* useState(false)
    isDownloadingSegment, \* useState(false)
    pc,            \* per process: the await it is suspended at
    ffmpeg,        \* per process: its local `ffmpeg` (the instance ensureFfmpeg returned)
    job,           \* per process: the locals of its invocation (points, i, segmentBlobs, format)
    delivered,     \* per process: the downloads (a.click()) of its current or last invocation
    outcome,       \* per process: "none", "running", "ok" or "failed" for that invocation
    errors,        \* per process: toast.error calls during that invocation
    started,       \* the number of export invocations started so far
    fs,            \* per instance: the files of its in-memory file system
    queue,         \* per instance: the processes whose call the worker has not served yet
    sampleBuffer,  \* AudioEditor: sampleRate and channel data of the decoded AudioBuffer
    extraction,    \* AudioEditor: downloadSegments' points, the segment buffers extracted so far, thrown
    timeInput      \* VideoSplitPointsList: useState(""), the text of the mm:ss field as a sequence of characters

modelVars == <<duration, splitPoints, nextId>>
flagVars == <<isFfmpegLoading, isEncoding, processingProgress, isStartingDownload,
              buttonClicked, isDownloadingSegment>>
extractVars == <<sampleBuffer, extraction>>
inputVars == <<timeInput>>
exportVars == <<editor, selectedFormat, audioBuffer, ffmpegRef, flagVars,
                pc, ffmpeg, job, delivered, outcome, errors, started, fs, queue,
                extractVars, inputVars>>
vars == <<modelVars, lastCall, exportVars>>

NoCall == [op |-> "none", id |-> 0, time |-> 0, index |-> 0, before |-> <<>>]
\* The sample data is followed only by the extraction specification.
NoSamples == [sampleRate |-> 1, channelData |-> <<>>]
NoExtraction == [points |-> <<>>, parts |-> <<>>, thrown |-> FALSE]

\* ------------------------------------------------------- pure functions

\* The ids of a split-point list.
Ids(sp) == {sp[i].id : i \in 1..Len(sp)}

Min(a, b) == IF a < b THEN a ELSE b
Max(a, b) == IF a > b THEN a ELSE b

\* One step of a stable insertion: p goes after every element with time <= p.time.
RECURSIVE InsertByTime(_, _)
InsertByTime(s, p) ==
    IF s = <<>> THEN <<p>>
    ELSE IF s[Len(s)].time <= p.time THEN Append(s, p)
    ELSE Append(InsertByTime(SubSeq(s, 1, Len(s) - 1), p), s[Len(s)])

\* Array.prototype.sort((a, b) => a.time - b.time): a stable sort by time.
RECURSIVE sortByTime(_)
sortByTime(s) ==
    IF s = <<>> THEN <<>>
    ELSE InsertByTime(sortByTime(SubSeq(s, 1, Len(s) - 1)), s[Len(s)])

\* Array.prototype.filter(point => point.id !== id)
RECURSIVE filterOutId(_, _)
filterOutId(s, id) ==
    IF s = <<>> THEN <<>>
    ELSE IF s[1].id = id THEN filterOutId(Tail(s), id)
    ELSE <<s[1]>> \o filterOutId(Tail(s), id)

\* const points = [0, ...splitPoints.map(p => p.time), duration]
Points(sp, d) == <<0>> \o [i \in 1..Len(sp) |-> sp[i].time] \o <<d>>

\* getSegments(): consecutive pairs of Points, numbered from 1.
getSegments(sp, d) ==
    LET points == Points(sp, d)
    IN  [i \in 1..(Len(points) - 1) |->
            [start |-> points[i], end |-> points[i + 1],
             duration |-> points[i + 1] - points[i], index |-> i]]

\* addSplitPoint: the new list, [...splitPoints, newPoint].sort(by time).
addedPointsUnsorted(sp, time, id) ==
    Append(sp, [id |-> id, time |-> time, label |-> Len(sp) + 1])
addedPoints(sp, time, id) ==
    sortByTime(Append(sp, [id |-> id, time |-> time, label |-> Len(sp) + 1]))

\* removeSplitPoint: splitPoints.filter(point => point.id !== id).
\* removeSplitPoint that numbers the labels of the remaining points anew.
removedPointsRenumbered(sp, id) ==
    LET rest == filterOutId(sp, id)
    IN  [i \in 1..Len(rest) |-> [rest[i] EXCEPT !.label = i]]
removedPoints(sp, id) == filterOutId(sp, id)

\* updateSplitPoint: map the matching point to the clamped time, then sort.
updatedPointsUnsorted(sp, id, newTime, d) ==
    [i \in 1..Len(sp) |->
        IF sp[i].id = id
        THEN [sp[i] EXCEPT !.time = Max(0, Min(d, newTime))]
        ELSE sp[i]]
updatedPointsFirst(sp, id, newTime, d) ==
    sortByTime([i \in 1..Len(sp) |->
        IF sp[i].id = id \/ (i = 1 /\ \A j \in 1..Len(sp) : sp[j].id # id)
        THEN [sp[i] EXCEPT !.time = Max(0, Min(d, newTime))]
        ELSE sp[i]])
\* updateSplitPoint that numbers the labels anew after sorting.
updatedPointsRelabelled(sp, id, newTime, d) ==
    LET sorted == sortByTime([i \in 1..Len(sp) |->
                     IF sp[i].id = id
                     THEN [sp[i] EXCEPT !.time = Max(0, Min(d, newTime))]
                     ELSE sp[i]])
    IN  [i \in 1..Len(sorted) |-> [sorted[i] EXCEPT !.label = i]]
updatedPoints(sp, id, newTime, d) ==
    sortByTime([i \in 1..Len(sp) |->
        IF sp[i].id = id
        THEN [sp[i] EXCEPT !.time = Max(0, Min(d, newTime))]
        ELSE sp[i]])

\* deleteSegment: the position in splitPoints of the split point it removes,
\* 0 when it removes none.
deleteTargetForward(sp, segmentIndex) ==
    LET splitPointIndex == segmentIndex - 1
    IN  IF splitPointIndex >= 0 /\ splitPointIndex < Len(sp)
        THEN splitPointIndex + 1 ELSE 0
\* deleteSegment that always removes the boundary before the segment.
deleteTargetBackward(sp, segmentIndex) ==
    LET splitPointIndex == segmentIndex - 2
    IN  IF splitPointIndex >= 0 /\ splitPointIndex < Len(sp)
        THEN splitPointIndex + 1 ELSE 0
\* deleteSegment that takes an index past the last segment for the last segment.
deleteTargetClamped(sp, segmentIndex) ==
    LET totalSegments == Len(sp) + 1
    IN  IF segmentIndex >= totalSegments
        THEN LET splitPointIndex == totalSegments - 2
             IN  IF splitPointIndex >= 0 /\ splitPointIndex < Len(sp)
                 THEN splitPointIndex + 1 ELSE 0
        ELSE LET splitPointIndex == segmentIndex - 1
             IN  IF splitPointIndex >= 0 /\ splitPointIndex < Len(sp)
                 THEN splitPointIndex + 1 ELSE 0
deleteTarget(sp, segmentIndex) ==
    LET totalSegments == Len(sp) + 1
    IN  IF segmentIndex = totalSegments
        THEN LET splitPointIndex == segmentIndex - 2
             IN  IF splitPointIndex >= 0 /\ splitPointIndex < Len(sp)
                 THEN splitPointIndex + 1 ELSE 0
        ELSE LET splitPointIndex == segmentIndex - 1
             IN  IF splitPointIndex >= 0 /\ splitPointIndex < Len(sp)
                 THEN splitPointIndex + 1 ELSE 0

\* ------------------------------------------------- encoder file system

\* segment_<i>.mp4, the output file of the i-th segment of downloadSegments.
SegFileNames == <<"segment_1.mp4", "segment_2.mp4", "segment_3.mp4",
                  "segment_4.mp4", "segment_5.mp4", "segment_6.mp4">>
SegFile(i) == SegFileNames[i]
FileNames == {"input.mp4", "segment.mp4", "input.wav", "output.mp3"}
                 \cup {SegFile(i) : i \in 1..(MaxPoints + 1)}

\* The content of a file: absent, the source media, or the time range
\* [start, end) cut (video) or extracted and encoded (audio) from it.
Absent == [kind |-> "absent", start |-> 0, end |-> 0]
Source == [kind |-> "source", start |-> 0, end |-> 0]
Range(s, e) == [kind |-> "range", start |-> s, end |-> e]
EmptyFs == [f \in FileNames |-> Absent]

NoJob == [points |-> <<>>, i |-> 0, segmentBlobs |-> <<>>, format |-> "none"]

\* ------------------------------------------- split-point operations

\* handleLoadedMetadata: setDuration(video.duration).
handleLoadedMetadata(d) ==
    /\ duration = 0
    /\ duration' = d
    /\ UNCHANGED <<splitPoints, nextId>>

\* addSplitPoint(time); its callers return early while duration === 0.
addSplitPoint(time) ==
    /\ duration # 0
    /\ nextId <= MaxIds
    /\ splitPoints' = addedPoints(splitPoints, time, nextId)
    /\ nextId' = nextId + 1
    /\ UNCHANGED duration

\* removeSplitPoint(id)
removeSplitPoint(id) ==
    /\ splitPoints' = removedPoints(splitPoints, id)
    /\ UNCHANGED <<duration, nextId>>

\* updateSplitPoint(id, newTime); its caller returns early while duration === 0.
updateSplitPoint(id, newTime) ==
    /\ duration # 0
    /\ splitPoints' = updatedPoints(splitPoints, id, newTime, duration)
    /\ UNCHANGED <<duration, nextId>>

\* deleteSegment(segmentIndex): removeSplitPoint of the boundary it picks.
deleteSegment(segmentIndex) ==
    /\ LET k == deleteTarget(splitPoints, segmentIndex)
       IN  splitPoints' = IF k = 0 THEN splitPoints
                          ELSE removedPoints(splitPoints, splitPoints[k].id)
    /\ UNCHANGED <<duration, nextId>>

\* The record of a call, kept in lastCall for the claims about one operation.
Called(op, id, time, index) ==
    lastCall' = [op |-> op, id |-> id, time |-> time, index |-> index,
                 before |-> splitPoints]

\* ----------------------------------------- the split-point specification

InitModel ==
    /\ duration = 0
    /\ splitPoints = <<>>
    /\ nextId = 1
    /\ lastCall = NoCall

\* The state after the editor has mounted.  VideoEditor's mount effect has
\* called ensureFfmpeg: the loading flag is set and the first source is being
\* loaded.  AudioEditor starts with 'wav' selected, so its effect does nothing.
InitExport ==
    /\ selectedFormat = "wav"
    /\ audioBuffer = FALSE
    /\ ffmpegRef = "none"
    /\ isFfmpegLoading = (editor = "video")
    /\ isEncoding = FALSE
    /\ processingProgress = <<0, 1>>
    /\ isStartingDownload = FALSE
    /\ buttonClicked = FALSE
    /\ isDownloadingSegment = FALSE
    /\ pc = [p \in Procs |-> IF p = "mount"
                               THEN (IF editor = "video" THEN "load1" ELSE "done")
                               ELSE "idle"]
    /\ ffmpeg = [p \in Procs |-> "none"]
    /\ job = [p \in Procs |-> NoJob]
    /\ delivered = [p \in Procs |-> <<>>]
    /\ outcome = [p \in Procs |-> "none"]
    /\ errors = [p \in Procs |-> 0]
    /\ started = 0
    /\ fs = [p \in Procs |-> EmptyFs]
    /\ queue = [p \in Procs |-> <<>>]
    /\ sampleBuffer = NoSamples
    /\ extraction = NoExtraction
    /\ timeInput = <<>>

\* The video editor with its split-point operations, no export running.
Init ==
    /\ InitModel
    /\ editor = "video"
    /\ InitExport

Next ==
    \/ \E d \in 1..MaxDuration :
         handleLoadedMetadata(d) /\ lastCall' = NoCall /\ UNCHANGED exportVars
    \/ \E t \in TimeArgs :
         addSplitPoint(t) /\ Called("addSplitPoint", nextId, t, 0) /\ UNCHANGED exportVars
    \/ \E id \in IdArgs :
         removeSplitPoint(id) /\ Called("removeSplitPoint", id, 0, 0) /\ UNCHANGED exportVars
    \/ \E id \in IdArgs, t \in TimeArgs :
         updateSplitPoint(id, t) /\ Called("updateSplitPoint", id, t, 0) /\ UNCHANGED exportVars
    \/ \E i \in IndexArgs :
         deleteSegment(i) /\ Called("deleteSegment", 0, 0, i) /\ UNCHANGED exportVars

Spec == Init /\ [][Next]_vars

\* --------------------------------------------------- encoder adapter

staticVars == <<modelVars, lastCall, editor, selectedFormat, audioBuffer, extractVars,
               inputVars>>
jobFlags == <<isEncoding, processingProgress, isStartingDownload, buttonClicked,
              isDownloadingSegment>>

\* An export invocation begins: one more of the MaxExports of a run.
StartExport ==
    /\ started < MaxExports
    /\ started' = started + 1

\* The worker of an FFmpeg instance serves the calls posted to it one at a
\* time, in the order they were posted.
AtHead(p) ==
    /\ ffmpeg[p] # "none"
    /\ queue[ffmpeg[p]] # <<>>
    /\ Head(queue[ffmpeg[p]]) = p
Posted(p) == [queue EXCEPT ![ffmpeg[p]] = Append(@, p)]
Served(p) == [queue EXCEPT ![ffmpeg[p]] = Tail(@)]
ServedAndPosted(p) == [queue EXCEPT ![ffmpeg[p]] = Append(Tail(@), p)]

\* The sources ensureFfmpeg tries in turn: three in VideoEditor, one in AudioEditor.
Strategies == IF editor = "video" THEN 3 ELSE 1
LoadPc == <<"load1", "load2", "load3">>
Loading(p) == pc[p] \in {"load1", "load2", "load3"}

\* Where a caller of ensureFfmpeg goes on once it has the instance.
AfterEnsure(p) ==
    IF p = "mount" THEN "done"
    ELSE IF editor = "video" THEN "fetch"
    ELSE "segment"

\* What a caller of ensureFfmpeg keeps of the instance it gets: the effects
\* drop it, the exports keep it in their local `ffmpeg`.
Received(p, inst) == IF p = "mount" THEN "none" ELSE inst

\* Finally with setButtonClicked(false) left out.
FinallyKeepsClicked(p) ==
    IF p = "mount" THEN UNCHANGED jobFlags
    ELSE IF p = "single"
    THEN /\ isDownloadingSegment' = FALSE
         /\ UNCHANGED <<isEncoding, processingProgress, isStartingDownload, buttonClicked>>
    ELSE IF editor = "video"
    THEN /\ isEncoding' = FALSE
         /\ processingProgress' = <<0, 1>>
         /\ isStartingDownload' = FALSE
         /\ UNCHANGED <<buttonClicked, isDownloadingSegment>>
    ELSE /\ isEncoding' = FALSE
         /\ UNCHANGED <<processingProgress, isStartingDownload, buttonClicked,
                        isDownloadingSegment>>

\* try { ... } finally { ... } of process p's export.
Finally(p) ==
    IF p = "mount" THEN UNCHANGED jobFlags
    ELSE IF p = "single"
    THEN /\ isDownloadingSegment' = FALSE
         /\ UNCHANGED <<isEncoding, processingProgress, isStartingDownload, buttonClicked>>
    ELSE IF editor = "video"
    THEN /\ isEncoding' = FALSE
         /\ processingProgress' = <<0, 1>>
         /\ isStartingDownload' = FALSE
         /\ buttonClicked' = FALSE
         /\ UNCHANGED isDownloadingSegment
    ELSE /\ isEncoding' = FALSE
         /\ UNCHANGED <<processingProgress, isStartingDownload, buttonClicked,
                        isDownloadingSegment>>

\* catch (error) { toast.error(...) } finally { ... }: the export of p ends in
\* failure after n error toasts; its locals are gone.
Catch(p, n) ==
    /\ errors' = [errors EXCEPT ![p] = @ + n]
    /\ outcome' = [outcome EXCEPT ![p] = "failed"]
    /\ job' = [job EXCEPT ![p] = [@ EXCEPT !.i = 0, !.segmentBlobs = <<>>, !.points = <<>>]]
    /\ pc' = [pc EXCEPT ![p] = "idle"]
    /\ ffmpeg' = [ffmpeg EXCEPT ![p] = "none"]
    /\ Finally(p)

\* The export of p ends in success; job[p].points keeps the list it worked on.
Finish(p) ==
    /\ outcome' = [outcome EXCEPT ![p] = "ok"]
    /\ job' = [job EXCEPT ![p] = [@ EXCEPT !.i = 0, !.segmentBlobs = <<>>]]
    /\ pc' = [pc EXCEPT ![p] = "idle"]
    /\ ffmpeg' = [ffmpeg EXCEPT ![p] = "none"]
    /\ Finally(p)

\* ensureFfmpeg, up to its first await: return the instance of ffmpegRef, or
\* set the loading flag, make a new FFmpeg() and start loading it from the
\* first source.
ensureFfmpeg(p) ==
    IF ffmpegRef # "none"
    THEN /\ ffmpeg' = [ffmpeg EXCEPT ![p] = Received(p, ffmpegRef)]
         /\ pc' = [pc EXCEPT ![p] = AfterEnsure(p)]
         /\ UNCHANGED <<ffmpegRef, isFfmpegLoading, fs, queue>>
    ELSE /\ isFfmpegLoading' = TRUE
         /\ pc' = [pc EXCEPT ![p] = "load1"]
         /\ ffmpeg' = [ffmpeg EXCEPT ![p] = "none"]
         /\ fs' = [fs EXCEPT ![p] = EmptyFs]
         /\ queue' = [queue EXCEPT ![p] = <<>>]
         /\ UNCHANGED ffmpegRef

\* await ffmpeg.load(...) from the source being tried succeeds:
\* ffmpegRef.current = ffmpeg; finally setIsFfmpegLoading(false).
ffmpegLoaded(p) ==
    /\ Loading(p)
    /\ ffmpegRef' = p
    /\ ffmpeg' = [ffmpeg EXCEPT ![p] = Received(p, p)]
    /\ isFfmpegLoading' = FALSE
    /\ pc' = [pc EXCEPT ![p] = AfterEnsure(p)]
    /\ UNCHANGED <<staticVars, jobFlags, job, delivered, outcome, errors, started, fs, queue>>

\* ffmpegLoadRetry that passes over the source next in line.
ffmpegLoadRetrySkips(p) ==
    /\ Loading(p)
    /\ \E k \in 1..(Strategies - 2) :
          /\ pc[p] = LoadPc[k]
          /\ pc' = [pc EXCEPT ![p] = LoadPc[k + 2]]
    /\ UNCHANGED <<staticVars, ffmpegRef, flagVars, ffmpeg, job, delivered, outcome,
                   errors, started, fs, queue>>

\* The source being tried fails and another one is left: try the next.
ffmpegLoadRetry(p) ==
    /\ Loading(p)
    /\ \E k \in 1..(Strategies - 1) :
          /\ pc[p] = LoadPc[k]
          /\ pc' = [pc EXCEPT ![p] = LoadPc[k + 1]]
    /\ UNCHANGED <<staticVars, ffmpegRef, flagVars, ffmpeg, job, delivered, outcome,
                   errors, started, fs, queue>>

\* ffmpegLoadFailed with the instance kept in ffmpegRef although its load
\* failed (a variant the claims about a failed initialization must exclude).
ffmpegLoadFailedRetained(p) ==
    /\ Loading(p)
    /\ pc[p] = LoadPc[Strategies]
    /\ isFfmpegLoading' = FALSE
    /\ ffmpegRef' = p
    /\ IF p = "mount"
       THEN /\ pc' = [pc EXCEPT ![p] = "done"]
            /\ errors' = [errors EXCEPT ![p] = @ + 1]
            /\ UNCHANGED <<jobFlags, job, outcome, ffmpeg>>
       ELSE Catch(p, 2)
    /\ UNCHANGED <<staticVars, delivered, started, fs, queue>>

\* The last source fails: toast.error, throw, finally setIsFfmpegLoading(false);
\* an effect swallows the error, an export catches it (a second toast.error).
ffmpegLoadFailed(p) ==
    /\ Loading(p)
    /\ pc[p] = LoadPc[Strategies]
    /\ isFfmpegLoading' = FALSE
    /\ IF p = "mount"
       THEN /\ pc' = [pc EXCEPT ![p] = "done"]
            /\ errors' = [errors EXCEPT ![p] = @ + 1]
            /\ UNCHANGED <<jobFlags, job, outcome, ffmpeg>>
       ELSE Catch(p, 2)
    /\ UNCHANGED <<staticVars, ffmpegRef, delivered, started, fs, queue>>

\* An output handed to the download collaborator: a.download =
\* <base>_segment_<index>.<ext>, made for the time range [start, end),
\* holding `content`.
Output(index, ext, s, e, content) ==
    [index |-> index, ext |-> ext, start |-> s, end |-> e, content |-> content]

\* The time range, the number in the file name and the output file of the
\* segment process p is at.
CurStart(p) == IF p = "single" THEN job[p].points[1] ELSE job[p].points[job[p].i + 1]
\* CurEnd read from the split points of the moment instead of the job's points.
CurEndLive(p) ==
    LET live == Points(splitPoints, duration)
    IN  IF p = "single" THEN job[p].points[2]
        ELSE IF job[p].i + 2 <= Len(live) THEN live[job[p].i + 2]
        ELSE job[p].points[job[p].i + 2]
CurEnd(p) == IF p = "single" THEN job[p].points[2] ELSE job[p].points[job[p].i + 2]
CurIndex(p) == IF p = "single" THEN job[p].i ELSE job[p].i + 1
OutFile(p) == IF p = "single" THEN "segment.mp4" ELSE SegFile(job[p].i + 1)
NumSegments(p) == Len(job[p].points) - 1

\* ------------------------------------------------ video export pipeline

\* disabled={splitPoints.length === 0 || isFfmpegLoading || isEncoding || isStartingDownload}
videoDownloadDisabled ==
    Len(splitPoints) = 0 \/ isFfmpegLoading \/ isEncoding \/ isStartingDownload

\* handleDownloadClick, then downloadSegments up to its first await.
handleDownloadClick ==
    /\ editor = "video"
    /\ pc["all"] = "idle"
    /\ ~videoDownloadDisabled
    /\ StartExport
    /\ buttonClicked' = TRUE
    /\ isStartingDownload' = TRUE
    /\ isEncoding' = TRUE
    /\ processingProgress' = <<0, 1>>
    /\ job' = [job EXCEPT !["all"] =
                  [points |-> Points(splitPoints, duration), i |-> 0,
                   segmentBlobs |-> <<>>, format |-> "mp4"]]
    /\ delivered' = [delivered EXCEPT !["all"] = <<>>]
    /\ outcome' = [outcome EXCEPT !["all"] = "running"]
    /\ errors' = [errors EXCEPT !["all"] = 0]
    /\ ensureFfmpeg("all")
    /\ UNCHANGED <<staticVars, isDownloadingSegment>>

\* downloadSingleSegment(start, end, index) up to its first await, called from
\* the button of the k-th segment card (the list is shown while
\* splitPoints.length > 0, its buttons are disabled while isDownloadingSegment).
downloadSingleSegment(k) ==
    /\ editor = "video"
    /\ pc["single"] = "idle"
    /\ Len(splitPoints) > 0
    /\ ~isDownloadingSegment
    /\ k \in 1..(Len(splitPoints) + 1)
    /\ StartExport
    /\ LET segment == getSegments(splitPoints, duration)[k]
       IN  job' = [job EXCEPT !["single"] =
                      [points |-> <<segment.start, segment.end>>, i |-> segment.index,
                       segmentBlobs |-> <<>>, format |-> "mp4"]]
    /\ isDownloadingSegment' = TRUE
    /\ delivered' = [delivered EXCEPT !["single"] = <<>>]
    /\ outcome' = [outcome EXCEPT !["single"] = "running"]
    /\ errors' = [errors EXCEPT !["single"] = 0]
    /\ ensureFfmpeg("single")
    /\ UNCHANGED <<staticVars, isEncoding, processingProgress, isStartingDownload,
                   buttonClicked>>

\* await fetchFile(videoFile) resolves: ffmpeg.writeFile('input.mp4', ...) is posted.
fetchFileDone(p) ==
    /\ editor = "video"
    /\ pc[p] = "fetch"
    /\ pc' = [pc EXCEPT ![p] = "write"]
    /\ queue' = Posted(p)
    /\ UNCHANGED <<staticVars, ffmpegRef, flagVars, ffmpeg, job, delivered, outcome,
                   errors, started, fs>>

\* await fetchFile(videoFile) rejects: catch, finally.
fetchFileFailed(p) ==
    /\ editor = "video"
    /\ pc[p] = "fetch"
    /\ Catch(p, 1)
    /\ UNCHANGED <<staticVars, ffmpegRef, isFfmpegLoading, delivered, started, fs, queue>>

\* The worker serves writeFile('input.mp4'); the export goes on to its
\* (first) ffmpeg.exec.
writeFileServed(p) ==
    /\ editor = "video"
    /\ pc[p] = "write"
    /\ AtHead(p)
    /\ fs' = [fs EXCEPT ![ffmpeg[p]]["input.mp4"] = Source]
    /\ pc' = [pc EXCEPT ![p] = "exec"]
    /\ queue' = ServedAndPosted(p)
    /\ UNCHANGED <<staticVars, ffmpegRef, flagVars, ffmpeg, job, delivered, outcome,
                   errors, started>>

\* The worker serves ffmpeg.exec(['-i', 'input.mp4', '-ss', start, '-to', end,
\* '-c', 'copy', out]): with the input there and the encoder willing, it
\* writes the output file; exec resolves either way (with an exit code, it
\* does not throw), and the export goes on to readFile.
execServed(p, encoded) ==
    /\ editor = "video"
    /\ pc[p] = "exec"
    /\ AtHead(p)
    /\ fs' = IF encoded /\ fs[ffmpeg[p]]["input.mp4"] # Absent
             THEN [fs EXCEPT ![ffmpeg[p]][OutFile(p)] = Range(CurStart(p), CurEnd(p))]
             ELSE fs
    /\ pc' = [pc EXCEPT ![p] = "read"]
    /\ queue' = ServedAndPosted(p)
    /\ UNCHANGED <<staticVars, ffmpegRef, flagVars, ffmpeg, job, delivered, outcome,
                   errors, started>>

\* The worker serves readFile(out) of downloadSegments: the blob is pushed to
\* segmentBlobs and deleteFile(out) is posted; a missing file throws.
readFileServedAll ==
    LET p == "all"
        data == fs[ffmpeg[p]][OutFile(p)]
    IN  /\ editor = "video"
        /\ pc[p] = "read"
        /\ AtHead(p)
        /\ IF data # Absent
           THEN /\ job' = [job EXCEPT ![p].segmentBlobs =
                              Append(@, Output(CurIndex(p), "mp4", CurStart(p), CurEnd(p), data))]
                /\ pc' = [pc EXCEPT ![p] = "delete"]
                /\ queue' = ServedAndPosted(p)
                /\ UNCHANGED <<jobFlags, outcome, errors, ffmpeg>>
           ELSE /\ Catch(p, 1)
                /\ queue' = Served(p)
        /\ UNCHANGED <<staticVars, ffmpegRef, isFfmpegLoading, delivered, started, fs>>

\* deleteFileServedAll that computes the progress from i instead of i + 1.
deleteFileServedAllStale ==
    LET p == "all"
    IN  /\ editor = "video"
        /\ pc[p] = "delete"
        /\ AtHead(p)
        /\ fs' = [fs EXCEPT ![ffmpeg[p]][OutFile(p)] = Absent]
        /\ processingProgress' = <<job[p].i * 100, NumSegments(p)>>
        /\ job' = [job EXCEPT ![p].i = @ + 1]
        /\ pc' = [pc EXCEPT ![p] = IF job[p].i + 1 < NumSegments(p) THEN "exec" ELSE "delinput"]
        /\ queue' = ServedAndPosted(p)
        /\ UNCHANGED <<staticVars, ffmpegRef, isFfmpegLoading, isEncoding, isStartingDownload,
                       buttonClicked, isDownloadingSegment, ffmpeg, delivered, outcome,
                       errors, started>>

\* The worker serves deleteFile(out) of downloadSegments; setProcessingProgress;
\* the loop goes on to the next exec or, after the last segment, to
\* deleteFile('input.mp4').
deleteFileServedAll ==
    LET p == "all"
    IN  /\ editor = "video"
        /\ pc[p] = "delete"
        /\ AtHead(p)
        /\ fs' = [fs EXCEPT ![ffmpeg[p]][OutFile(p)] = Absent]
        /\ processingProgress' = <<(job[p].i + 1) * 100, NumSegments(p)>>
        /\ job' = [job EXCEPT ![p].i = @ + 1]
        /\ pc' = [pc EXCEPT ![p] = IF job[p].i + 1 < NumSegments(p) THEN "exec" ELSE "delinput"]
        /\ queue' = ServedAndPosted(p)
        /\ UNCHANGED <<staticVars, ffmpegRef, isFfmpegLoading, isEncoding, isStartingDownload,
                       buttonClicked, isDownloadingSegment, ffmpeg, delivered, outcome,
                       errors, started>>

\* The worker serves deleteFile('input.mp4') of downloadSegments; then every
\* blob of segmentBlobs is downloaded, in order, and the export ends.
deliverAll ==
    LET p == "all"
    IN  /\ editor = "video"
        /\ pc[p] = "delinput"
        /\ AtHead(p)
        /\ fs' = [fs EXCEPT ![ffmpeg[p]]["input.mp4"] = Absent]
        /\ delivered' = [delivered EXCEPT ![p] = job[p].segmentBlobs]
        /\ Finish(p)
        /\ queue' = Served(p)
        /\ UNCHANGED <<staticVars, ffmpegRef, isFfmpegLoading, errors, started>>

\* The worker serves readFile('segment.mp4') of downloadSingleSegment: the blob
\* is downloaded at once and deleteFile('input.mp4') is posted; a missing file
\* throws.
readFileServedSingle ==
    LET p == "single"
        data == fs[ffmpeg[p]][OutFile(p)]
    IN  /\ editor = "video"
        /\ pc[p] = "read"
        /\ AtHead(p)
        /\ IF data # Absent
           THEN /\ delivered' = [delivered EXCEPT ![p] =
                        <<Output(CurIndex(p), "mp4", CurStart(p), CurEnd(p), data)>>]
                /\ pc' = [pc EXCEPT ![p] = "delinput"]
                /\ queue' = ServedAndPosted(p)
                /\ UNCHANGED <<jobFlags, job, outcome, errors, ffmpeg>>
           ELSE /\ Catch(p, 1)
                /\ queue' = Served(p)
                /\ UNCHANGED delivered
        /\ UNCHANGED <<staticVars, ffmpegRef, isFfmpegLoading, started, fs>>

\* The worker serves deleteFile('input.mp4') of downloadSingleSegment;
\* deleteFile('segment.mp4') is posted.
deleteInputServedSingle ==
    LET p == "single"
    IN  /\ editor = "video"
        /\ pc[p] = "delinput"
        /\ AtHead(p)
        /\ fs' = [fs EXCEPT ![ffmpeg[p]]["input.mp4"] = Absent]
        /\ pc' = [pc EXCEPT ![p] = "delout"]
        /\ queue' = ServedAndPosted(p)
        /\ UNCHANGED <<staticVars, ffmpegRef, flagVars, ffmpeg, job, delivered, outcome,
                       errors, started>>

\* The worker serves deleteFile('segment.mp4') of downloadSingleSegment; the
\* export ends.
finishSingle ==
    LET p == "single"
    IN  /\ editor = "video"
        /\ pc[p] = "delout"
        /\ AtHead(p)
        /\ fs' = [fs EXCEPT ![ffmpeg[p]]["segment.mp4"] = Absent]
        /\ Finish(p)
        /\ queue' = Served(p)
        /\ UNCHANGED <<staticVars, ffmpegRef, isFfmpegLoading, delivered, errors, started>>

\* ------------------------------------------------ audio export pipeline

\* disabled={splitPoints.length === 0 ||
\*           (selectedFormat === 'mp3' && (isFfmpegLoading || isEncoding))}
audioDownloadDisabled ==
    Len(splitPoints) = 0 \/ (selectedFormat = "mp3" /\ (isFfmpegLoading \/ isEncoding))

\* The process that follows a new downloadSegments invocation of AudioEditor.
AudioJob == IF pc["all"] = "idle" THEN "all" ELSE "all2"

\* extractSegment(buffer, startTime, endTime): createBuffer(channels,
\* endSample - startSample, sampleRate) throws unless the length is positive.
extractFails(startTime, endTime) == endTime - startTime <= 0

\* The number of segments of `points` the loop gets through before an
\* extractSegment throws (all of them when none does).
extractedBefore(points) ==
    LET failing == {i \in 1..(Len(points) - 1) : extractFails(points[i], points[i + 1])}
    IN  IF failing = {} THEN Len(points) - 1
        ELSE (CHOOSE i \in failing : \A j \in failing : i <= j) - 1

\* loadAudioBuffer: the file is decoded, setAudioBuffer(buffer).
loadAudioBuffer ==
    /\ editor = "audio"
    /\ ~audioBuffer
    /\ audioBuffer' = TRUE
    /\ UNCHANGED <<modelVars, lastCall, editor, selectedFormat, ffmpegRef, flagVars, pc,
                   ffmpeg, job, delivered, outcome, errors, started, fs, queue, extractVars,
                   inputVars>>

\* The format Select: setSelectedFormat(value), and the effect on
\* selectedFormat, which calls ensureFfmpeg when 'mp3' is selected.  One call
\* of the effect is followed at a time.
setSelectedFormat(value) ==
    /\ editor = "audio"
    /\ value # selectedFormat
    /\ selectedFormat' = value
    /\ IF value = "mp3"
       THEN /\ ~Loading("mount")
            /\ ensureFfmpeg("mount")
            /\ errors' = [errors EXCEPT !["mount"] = 0]
       ELSE UNCHANGED <<ffmpegRef, isFfmpegLoading, pc, ffmpeg, errors, fs, queue>>
    /\ UNCHANGED <<modelVars, lastCall, editor, audioBuffer, jobFlags, job, delivered,
                   outcome, started, extractVars, inputVars>>

\* downloadSegments while audioBuffer is null: toast.error, return.
downloadSegmentsNotReady ==
    LET p == AudioJob
    IN  /\ editor = "audio"
        /\ pc[p] = "idle"
        /\ ~audioDownloadDisabled
        /\ ~audioBuffer
        /\ StartExport
        /\ delivered' = [delivered EXCEPT ![p] = <<>>]
        /\ outcome' = [outcome EXCEPT ![p] = "failed"]
        /\ errors' = [errors EXCEPT ![p] = 1]
        /\ job' = [job EXCEPT ![p] = NoJob]
        /\ UNCHANGED <<staticVars, ffmpegRef, flagVars, pc, ffmpeg, fs, queue>>

\* downloadSegments with 'wav' selected.  Nothing in it waits for anything but
\* resolved promises, so it runs to its end before any other event: each
\* segment is extracted, encoded and downloaded in turn; an extractSegment that
\* throws ends the loop (catch, finally).
downloadSegmentsWav ==
    LET p == AudioJob
        points == Points(splitPoints, duration)
        m == extractedBefore(points)
    IN  /\ editor = "audio"
        /\ pc[p] = "idle"
        /\ ~audioDownloadDisabled
        /\ audioBuffer
        /\ selectedFormat = "wav"
        /\ StartExport
        /\ delivered' = [delivered EXCEPT ![p] =
               [i \in 1..m |-> Output(i, "wav", points[i], points[i + 1],
                                      Range(points[i], points[i + 1]))]]
        /\ outcome' = [outcome EXCEPT ![p] = IF m = Len(points) - 1 THEN "ok" ELSE "failed"]
        /\ errors' = [errors EXCEPT ![p] = IF m = Len(points) - 1 THEN 0 ELSE 1]
        /\ job' = [job EXCEPT ![p] =
               [points |-> IF m = Len(points) - 1 THEN points ELSE <<>>, i |-> 0,
                segmentBlobs |-> <<>>, format |-> "wav"]]
        /\ isEncoding' = FALSE
        /\ UNCHANGED <<staticVars, ffmpegRef, isFfmpegLoading, processingProgress,
                       isStartingDownload, buttonClicked, isDownloadingSegment, pc, ffmpeg,
                       fs, queue>>

\* downloadSegments with 'mp3' selected, up to its first await (ensureFfmpeg).
downloadSegmentsMp3 ==
    LET p == AudioJob
    IN  /\ editor = "audio"
        /\ pc[p] = "idle"
        /\ ~audioDownloadDisabled
        /\ audioBuffer
        /\ selectedFormat = "mp3"
        /\ StartExport
        /\ isEncoding' = TRUE
        /\ job' = [job EXCEPT ![p] =
               [points |-> Points(splitPoints, duration), i |-> 0,
                segmentBlobs |-> <<>>, format |-> "mp3"]]
        /\ delivered' = [delivered EXCEPT ![p] = <<>>]
        /\ outcome' = [outcome EXCEPT ![p] = "running"]
        /\ errors' = [errors EXCEPT ![p] = 0]
        /\ ensureFfmpeg(p)
        /\ UNCHANGED <<staticVars, processingProgress, isStartingDownload, buttonClicked,
                       isDownloadingSegment>>

\* One turn of the MP3 loop up to `await wavBlob.arrayBuffer()`: extractSegment
\* (which may throw), then audioBufferToMp3Blob takes the instance of
\* ffmpegRef and encodes the segment as WAV.
beginSegment(p) ==
    /\ editor = "audio"
    /\ pc[p] = "segment"
    /\ IF extractFails(CurStart(p), CurEnd(p))
       THEN Catch(p, 1)
       ELSE /\ ffmpeg' = [ffmpeg EXCEPT ![p] = ffmpegRef]
            /\ pc' = [pc EXCEPT ![p] = "wavbytes"]
            /\ UNCHANGED <<jobFlags, job, outcome, errors>>
    /\ UNCHANGED <<staticVars, ffmpegRef, isFfmpegLoading, delivered, started, fs, queue>>

\* await wavBlob.arrayBuffer() resolves: ffmpeg.writeFile('input.wav', ...) is posted.
wavBytesDone(p) ==
    /\ editor = "audio"
    /\ pc[p] = "wavbytes"
    /\ pc' = [pc EXCEPT ![p] = "write"]
    /\ queue' = Posted(p)
    /\ UNCHANGED <<staticVars, ffmpegRef, flagVars, ffmpeg, job, delivered, outcome,
                   errors, started, fs>>

\* The worker serves writeFile('input.wav') with the WAV of the segment;
\* ffmpeg.exec is posted.
writeWavServed(p) ==
    /\ editor = "audio"
    /\ pc[p] = "write"
    /\ AtHead(p)
    /\ fs' = [fs EXCEPT ![ffmpeg[p]]["input.wav"] = Range(CurStart(p), CurEnd(p))]
    /\ pc' = [pc EXCEPT ![p] = "exec"]
    /\ queue' = ServedAndPosted(p)
    /\ UNCHANGED <<staticVars, ffmpegRef, flagVars, ffmpeg, job, delivered, outcome,
                   errors, started>>

\* The worker serves ffmpeg.exec(['-i', 'input.wav', ..., 'output.mp3']): with
\* the encoder willing, output.mp3 becomes the encoding of whatever input.wav
\* holds; exec resolves either way, and readFile('output.mp3') is posted.
execMp3Served(p, encoded) ==
    /\ editor = "audio"
    /\ pc[p] = "exec"
    /\ AtHead(p)
    /\ fs' = IF encoded /\ fs[ffmpeg[p]]["input.wav"] # Absent
             THEN [fs EXCEPT ![ffmpeg[p]]["output.mp3"] = fs[ffmpeg[p]]["input.wav"]]
             ELSE fs
    /\ pc' = [pc EXCEPT ![p] = "read"]
    /\ queue' = ServedAndPosted(p)
    /\ UNCHANGED <<staticVars, ffmpegRef, flagVars, ffmpeg, job, delivered, outcome,
                   errors, started>>

\* The worker serves readFile('output.mp3'): the blob is downloaded at once as
\* segment i + 1, and the loop goes on to the next segment or ends; a missing
\* file throws.
readMp3Served(p) ==
    LET data == fs[ffmpeg[p]]["output.mp3"]
    IN  /\ editor = "audio"
        /\ pc[p] = "read"
        /\ AtHead(p)
        /\ queue' = Served(p)
        /\ IF data = Absent
           THEN Catch(p, 1) /\ UNCHANGED delivered
           ELSE /\ delivered' = [delivered EXCEPT ![p] =
                        Append(@, Output(CurIndex(p), "mp3", CurStart(p), CurEnd(p), data))]
                /\ IF job[p].i + 1 < NumSegments(p)
                   THEN /\ job' = [job EXCEPT ![p].i = @ + 1]
                        /\ pc' = [pc EXCEPT ![p] = "segment"]
                        /\ UNCHANGED <<jobFlags, outcome, ffmpeg>>
                   ELSE Finish(p)
                /\ UNCHANGED errors
        /\ UNCHANGED <<staticVars, ffmpegRef, isFfmpegLoading, started, fs>>

\* ------------------------------------------------ export specification

\* The split-point operations of the editors' UI, which stay available while
\* exports run.  AudioEditor has no updateSplitPoint and no deleteSegment.
EditStep ==
    \/ \E d \in {MaxDuration} : handleLoadedMetadata(d)
    \/ Len(splitPoints) < MaxPoints /\ \E t \in ExportTimes : addSplitPoint(t)
    \/ \E id \in Ids(splitPoints) : removeSplitPoint(id)
    \/ editor = "video" /\ \E id \in Ids(splitPoints), t \in ExportTimes : updateSplitPoint(id, t)
    \/ editor = "video" /\ \E i \in 1..(Len(splitPoints) + 1) : deleteSegment(i)

VideoJobs == {"all", "single"}
AudioJobs == {"all", "all2"}

NextExport ==
    \/ EditStep /\ UNCHANGED <<lastCall, exportVars>>
    \/ \E p \in Procs : ffmpegLoaded(p)
    \/ \E p \in Procs : ffmpegLoadRetry(p)
    \/ \E p \in Procs : ffmpegLoadFailed(p)
    \/ handleDownloadClick
    \/ \E k \in 1..(MaxPoints + 1) : downloadSingleSegment(k)
    \/ \E p \in VideoJobs : fetchFileDone(p)
    \/ \E p \in VideoJobs : fetchFileFailed(p)
    \/ \E p \in VideoJobs : writeFileServed(p)
    \/ \E p \in VideoJobs, encoded \in BOOLEAN : execServed(p, encoded)
    \/ readFileServedAll
    \/ deleteFileServedAll
    \/ deliverAll
    \/ readFileServedSingle
    \/ deleteInputServedSingle
    \/ finishSingle
    \/ loadAudioBuffer
    \/ \E value \in {"wav", "mp3"} : setSelectedFormat(value)
    \/ downloadSegmentsNotReady
    \/ downloadSegmentsWav
    \/ downloadSegmentsMp3
    \/ \E p \in AudioJobs : beginSegment(p)
    \/ \E p \in AudioJobs : wavBytesDone(p)
    \/ \E p \in AudioJobs : writeWavServed(p)
    \/ \E p \in AudioJobs, encoded \in BOOLEAN : execMp3Served(p, encoded)
    \/ \E p \in AudioJobs : readMp3Served(p)

\* Either editor, mounted on a file.
InitExportSpec ==
    /\ InitModel
    /\ editor \in {"video", "audio"}
    /\ InitExport

SpecExport == InitExportSpec /\ [][NextExport]_vars

\* The steps that move process p on without the user: a load, a fetch or a
\* call to the encoder's worker of p comes back.
Advance(p) ==
    \/ ffmpegLoaded(p)
    \/ ffmpegLoadRetry(p)
    \/ ffmpegLoadFailed(p)
    \/ /\ p \in VideoJobs
       /\ \/ fetchFileDone(p)
          \/ fetchFileFailed(p)
          \/ writeFileServed(p)
          \/ \E encoded \in BOOLEAN : execServed(p, encoded)
    \/ /\ p = "all"
       /\ (readFileServedAll \/ deleteFileServedAll \/ deliverAll)
    \/ /\ p = "single"
       /\ (readFileServedSingle \/ deleteInputServedSingle \/ finishSingle)
    \/ /\ p \in AudioJobs
       /\ \/ beginSegment(p)
          \/ wavBytesDone(p)
          \/ writeWavServed(p)
          \/ \E encoded \in BOOLEAN : execMp3Served(p, encoded)
          \/ readMp3Served(p)

\* The export specification with every promise settling: a process that
\* waits for a load, a fetch or an encoder call is moved on in the end.
SpecExportFair == SpecExport /\ \A p \in Procs : WF_vars(Advance(p))

\* ------------------------------------------------- segment extraction

\* In the extraction specification a time is a whole number of
\* 1/TicksPerSecond seconds, so that split points fall between samples.
TicksPerSecond == 2
\* Largest buffer the extraction specification decodes.
MaxSamples == 3
MaxSampleRate == 2
MaxChannels == 2

\* Math.floor(time * buffer.sampleRate), for time >= 0.
floorSample(time, sampleRate) == (time * sampleRate) \div TicksPerSecond

\* What a Float32Array holds after undefined was assigned to an element (a
\* value that no sample of Buffers has).
NaN == 0 - 1
\* audioContext.createBuffer threw (NotSupportedError).
Throws == [error |-> "NotSupportedError"]

\* The decoded buffers: sample i of channel c has a value of its own.
Buffers ==
    {[sampleRate |-> r,
      channelData |-> [c \in 1..n |-> [i \in 1..len |-> 10 * c + i]]] :
        r \in 1..MaxSampleRate, n \in 1..MaxChannels, len \in 1..MaxSamples}

\* buffer.length
Length(buffer) == Len(buffer.channelData[1])

\* The durations the audio element may report for a buffer: those that end
\* with the buffer's last sample, and those that end one sample later (the
\* element's duration and the length decodeAudioData gives are computed apart).
Durations(buffer) ==
    {d \in 1..((MaxSamples + 1) * TicksPerSecond + 1) :
        floorSample(d, buffer.sampleRate) \in {Length(buffer), Length(buffer) + 1}}

\* The indices extractSegment reads from each source channel:
\* channelData[startSample + i] for 0 <= i < segmentLength.
readIndices(buffer, startTime, endTime) ==
    LET startSample == floorSample(startTime, buffer.sampleRate)
        endSample == floorSample(endTime, buffer.sampleRate)
        segmentLength == endSample - startSample
    IN  {startSample + i : i \in 0..(segmentLength - 1)}

\* extractSegment(buffer, startTime, endTime): createBuffer throws unless the
\* length is positive; sample i of the segment is channelData[startSample + i]
\* (indices from 0 in the source, from 1 here).
extractSegment(buffer, startTime, endTime) ==
    LET startSample == floorSample(startTime, buffer.sampleRate)
        endSample == floorSample(endTime, buffer.sampleRate)
        segmentLength == endSample - startSample
    IN  IF segmentLength <= 0 THEN Throws
        ELSE [sampleRate |-> buffer.sampleRate,
              channelData |->
                 [c \in DOMAIN buffer.channelData |->
                    [i \in 1..segmentLength |->
                       IF startSample + i <= Length(buffer)
                       THEN buffer.channelData[c][startSample + i]
                       ELSE NaN]]]

\* AudioEditor with the file decoded, its duration known and two split points
\* placed at a <= b; downloadSegments ('wav') has built its points array.
InitExtract ==
    /\ editor = "audio"
    /\ sampleBuffer \in Buffers
    /\ duration \in Durations(sampleBuffer)
    /\ \E a \in 0..duration, b \in 0..duration :
          /\ a <= b
          /\ splitPoints = addedPoints(addedPoints(<<>>, a, 1), b, 2)
    /\ nextId = 3
    /\ lastCall = NoCall
    /\ selectedFormat = "wav"
    /\ audioBuffer = TRUE
    /\ ffmpegRef = "none"
    /\ isFfmpegLoading = FALSE
    /\ isEncoding = TRUE
    /\ processingProgress = <<0, 1>>
    /\ isStartingDownload = FALSE
    /\ buttonClicked = FALSE
    /\ isDownloadingSegment = FALSE
    /\ pc = [p \in Procs |-> IF p = "mount" THEN "done"
                               ELSE IF p = "all" THEN "segment" ELSE "idle"]
    /\ ffmpeg = [p \in Procs |-> "none"]
    /\ job = [p \in Procs |-> NoJob]
    /\ delivered = [p \in Procs |-> <<>>]
    /\ outcome = [p \in Procs |-> IF p = "all" THEN "running" ELSE "none"]
    /\ errors = [p \in Procs |-> 0]
    /\ started = 1
    /\ fs = [p \in Procs |-> EmptyFs]
    /\ queue = [p \in Procs |-> <<>>]
    /\ extraction = [points |-> Points(splitPoints, duration), parts |-> <<>>,
                     thrown |-> FALSE]
    /\ timeInput = <<>>

\* One turn of downloadSegments' loop, as far as extractSegment: the segment
\* buffer of points[i], points[i + 1] is made, or extractSegment throws and
\* the loop is left.
extractNextSegment ==
    LET i == Len(extraction.parts) + 1
        segmentBuffer == extractSegment(sampleBuffer, extraction.points[i],
                                        extraction.points[i + 1])
    IN  /\ ~extraction.thrown
        /\ i < Len(extraction.points)
        /\ extraction' =
              IF segmentBuffer = Throws
              THEN [extraction EXCEPT !.thrown = TRUE]
              ELSE [extraction EXCEPT !.parts = Append(@, segmentBuffer)]
        /\ UNCHANGED <<modelVars, lastCall, editor, selectedFormat, audioBuffer, ffmpegRef,
                       flagVars, pc, ffmpeg, job, delivered, outcome, errors, started, fs,
                       queue, sampleBuffer, inputVars>>

NextExtract == extractNextSegment

SpecExtract == InitExtract /\ [][NextExtract]_vars

\* ---------------------------------------------------- time input field

\* The characters typed into the mm:ss field, and the longest text followed.
Chars == {"0", "1", "6", "-", ":", "x"}
MaxInputLen == 4

Digits == {"0", "1", "6"}
digitValue(ch) == IF ch = "0" THEN 0 ELSE IF ch = "1" THEN 1 ELSE 6

\* The value of the leading digits of text, after the digits read so far
\* (value acc, `any` when there was one).
RECURSIVE leadingDigits(_, _, _)
leadingDigits(text, acc, any) ==
    IF text # <<>> /\ Head(text) \in Digits
    THEN leadingDigits(Tail(text), 10 * acc + digitValue(Head(text)), TRUE)
    ELSE [isNaN |-> ~any, value |-> acc]

\* parseInt(text, 10): an optional sign, then the leading digits; NaN when
\* there is no digit.
parseInt(text) ==
    IF text # <<>> /\ Head(text) = "-"
    THEN LET r == leadingDigits(Tail(text), 0, FALSE)
         IN  [isNaN |-> r.isNaN, value |-> 0 - r.value]
    ELSE leadingDigits(text, 0, FALSE)

\* input.split(':')
RECURSIVE split(_)
split(input) ==
    IF \A i \in 1..Len(input) : input[i] # ":" THEN <<input>>
    ELSE LET c == CHOOSE i \in 1..Len(input) :
                     input[i] = ":" /\ \A j \in 1..(i - 1) : input[j] # ":"
         IN  <<SubSeq(input, 1, c - 1)>> \o split(SubSeq(input, c + 1, Len(input)))

\* parseTimeInput(input): null, or the number of seconds.
Null == [isNull |-> TRUE, value |-> 0]
parseTimeInput(input, d) ==
    LET parts == split(input)
    IN  IF Len(parts) # 2 THEN Null
        ELSE LET minutes == parseInt(parts[1])
                 seconds == parseInt(parts[2])
                 totalSeconds == minutes.value * 60 + seconds.value
             IN  IF minutes.isNaN \/ seconds.isNaN \/ seconds.value >= 60 THEN Null
                 ELSE IF totalSeconds <= d THEN [isNull |-> FALSE, value |-> totalSeconds]
                 ELSE Null

\* onChange of the field: setTimeInput(e.target.value); a character is typed
\* at the end of the text, or the last one is deleted.
setTimeInput(value) ==
    /\ timeInput' = value
    /\ UNCHANGED <<modelVars, lastCall>>

\* handleAddSplitPoint (the Add button, or Enter in the field): when
\* parseTimeInput gives a number, onAddSplitPoint(time) and setTimeInput("").
handleAddSplitPoint ==
    LET time == parseTimeInput(timeInput, duration)
    IN  IF time.isNull
        THEN UNCHANGED <<modelVars, lastCall, timeInput>>
        ELSE /\ Len(splitPoints) < MaxPoints
             /\ addSplitPoint(time.value)
             /\ Called("addSplitPoint", nextId, time.value, 0)
             /\ timeInput' = <<>>

\* The video editor with the mm:ss field of its split-point list.
pipelineVars == <<editor, selectedFormat, audioBuffer, ffmpegRef, flagVars, pc, ffmpeg, job,
                  delivered, outcome, errors, started, fs, queue, extractVars>>

NextParse ==
    \/ \E d \in 1..MaxDuration :
         handleLoadedMetadata(d) /\ UNCHANGED <<lastCall, timeInput, pipelineVars>>
    \/ /\ Len(timeInput) < MaxInputLen
       /\ \E ch \in Chars : setTimeInput(Append(timeInput, ch))
       /\ UNCHANGED pipelineVars
    \/ /\ timeInput # <<>>
       /\ setTimeInput(SubSeq(timeInput, 1, Len(timeInput) - 1))
       /\ UNCHANGED pipelineVars
    \/ handleAddSplitPoint /\ UNCHANGED pipelineVars

SpecParse == Init /\ [][NextParse]_vars

\* ------------------------------------------------------------ helpers

TimesInRange(sp, d) == \A i \in 1..Len(sp) : 0 <= sp[i].time /\ sp[i].time <= d
SortedByTime(sp) == \A i \in 1..Len(sp), j \in 1..Len(sp) : i < j => sp[i].time <= sp[j].time
Clamp(t, d) == Max(0, Min(d, t))

\* The unit cells [t, t+1) covered by the segments' time ranges [start, end).
Covered(segs) ==
    {t \in TimeArgs : \E i \in 1..Len(segs) : segs[i].start <= t /\ t < segs[i].end}
FullRange(d) == 0..(d - 1)

\* ------------------------------------------------------- claims C1..C5

\* C1: for a duration D > 0 and split points with times in [0, D], however they
\* were inserted, the derived segment list has |S|+1 entries, starts at 0, ends
\* at D, every segment starts where the previous one ends and none runs
\* backwards, and the indices are 1, 2, ...
C1_SegmentsPartition ==
    (duration > 0 /\ TimesInRange(splitPoints, duration)) =>
        LET segs == getSegments(splitPoints, duration)
            n == Len(segs)
        IN  /\ n = Len(splitPoints) + 1
            /\ segs[1].start = 0
            /\ segs[n].end = duration
            /\ \A i \in 2..n : segs[i].start = segs[i - 1].end
            /\ \A i \in 1..n : segs[i].start <= segs[i].end
            /\ \A i \in 1..n : segs[i].index = i
            /\ Covered(segs) = FullRange(duration)

\* C1 witness: a point was just inserted before an existing one (out of order),
\* all times are in range and distinct.
C1_Witness ==
    /\ lastCall.op = "addSplitPoint"
    /\ Len(lastCall.before) >= 1
    /\ lastCall.time < lastCall.before[1].time
    /\ duration > 0
    /\ TimesInRange(splitPoints, duration)
    /\ Len(splitPoints) = 2

\* C2: the stored split-point list is sorted ascending by time in every
\* reachable state.
C2_SortedInvariant == SortedByTime(splitPoints)

\* C2 witness: an update moved a point past its neighbour, so the sort had to
\* reorder the list.
C2_Witness ==
    /\ lastCall.op = "updateSplitPoint"
    /\ Len(splitPoints) = 2
    /\ Len(lastCall.before) = 2
    /\ splitPoints[1].id = lastCall.before[2].id
    /\ splitPoints[1].time < splitPoints[2].time

\* C3: addSplitPoint(t) stores the time clamped to the nearest boundary, and
\* every stored split point has 0 <= time <= duration.
C3_AddClampsIntoRange ==
    /\ lastCall.op = "addSplitPoint" =>
          \E i \in 1..Len(splitPoints) :
              /\ splitPoints[i].id = lastCall.id
              /\ splitPoints[i].time = Clamp(lastCall.time, duration)
    /\ TimesInRange(splitPoints, duration)

\* C4: updateSplitPoint(id, t) or removeSplitPoint(id) with an id that is not
\* in the list leaves the list as it was (same points, same order).
C4_AbsentIdNoOp ==
    (/\ lastCall.op \in {"updateSplitPoint", "removeSplitPoint"}
     /\ lastCall.id \notin Ids(lastCall.before))
        => splitPoints = lastCall.before

\* C4 witness: updateSplitPoint with an unknown id on a list of two points,
\* with a time that differs from every stored time.
C4_Witness ==
    /\ lastCall.op = "updateSplitPoint"
    /\ lastCall.id \notin Ids(lastCall.before)
    /\ Len(lastCall.before) = 2
    /\ \A i \in 1..2 : lastCall.before[i].time # Clamp(lastCall.time, duration)

C6_ExportAllInOrder ==
    \A p \in {"all", "all2"} :
        LET out == delivered[p]
            points == job[p].points
        IN  /\ \A i \in 1..Len(out) :
                  /\ out[i].index = i
                  /\ out[i].ext = job[p].format
                  /\ out[i].start = IF i = 1 THEN 0 ELSE out[i - 1].end
                  /\ out[i].content = Range(out[i].start, out[i].end)
                  /\ points # <<>> =>
                        out[i].start = points[i] /\ out[i].end = points[i + 1]
            /\ outcome[p] = "ok" => Len(out) = Len(points) - 1

\* C7: an exportAll invocation that fails has delivered no output, and none
\* is delivered while segments of the job are still to be encoded.
C7_NoPartialDelivery ==
    \A p \in {"all", "all2"} :
        outcome[p] \in {"running", "failed"} => delivered[p] = <<>>

\* C8: at most one export invocation (downloadSegments or
\* downloadSingleSegment) has started and not yet finished.
C8_OneActiveExport ==
    Cardinality({p \in Procs : outcome[p] = "running"}) <= 1

\* C9: at most one ffmpeg.exec call is in flight (posted, not yet resolved) on
\* an encoder instance.
C9_OneEncodeInFlight ==
    \A p \in Procs, q \in Procs :
        (pc[p] = "exec" /\ pc[q] = "exec" /\ ffmpeg[p] = ffmpeg[q]) => p = q

\* C10: at most one FFmpeg instance is being loaded at a time, and every
\* caller that holds an instance holds the one of ffmpegRef.
C10_OneInitialization ==
    /\ Cardinality({p \in Procs : Loading(p)}) <= 1
    /\ \A p \in Procs : ffmpeg[p] # "none" => ffmpeg[p] = ffmpegRef

\* ----------------------------------------------------- claims C11..C20

\* C11: once an ensureFfmpeg call has completed successfully (ffmpegRef is
\* set), ffmpegRef keeps that instance, and every later ensureFfmpeg call (at
\* the start of an export, or by the selectedFormat effect) returns it at
\* once: the caller goes on with the instance of ffmpegRef, no load is
\* started and the loading flag keeps its value.
C11_ReadyReturnsSame ==
    [][ffmpegRef # "none" =>
          /\ ffmpegRef' = ffmpegRef
          /\ \A p \in Procs :
                (pc[p] = "idle" /\ pc'[p] # "idle") =>
                    /\ pc'[p] = AfterEnsure(p)
                    /\ ffmpeg'[p] = ffmpegRef
                    /\ isFfmpegLoading' = isFfmpegLoading
          /\ (selectedFormat = "wav" /\ selectedFormat' = "mp3") =>
                (pc' = pc /\ isFfmpegLoading' = isFfmpegLoading)
      ]_vars

\* C12: an ensureFfmpeg call reports failure (its toast.error) only from the
\* last source; it then stops loading, leaves ffmpegRef as it was without
\* keeping its own instance, and the export that called it fails.  A load is
\* started only while ffmpegRef is empty, and an ensureFfmpeg call that finds
\* ffmpegRef empty starts with the first source.
C12_FailedInitRetries ==
    [][\A p \in Procs :
          /\ (Loading(p) /\ errors'[p] > errors[p]) =>
                /\ pc[p] = LoadPc[Strategies]
                /\ pc'[p] \in {"idle", "done"}
                /\ ffmpegRef' = ffmpegRef
                /\ ffmpegRef' # p
                /\ p # "mount" => outcome'[p] = "failed"
          /\ (~Loading(p) /\ pc'[p] \in {"load1", "load2", "load3"}) =>
                (ffmpegRef = "none" /\ pc'[p] = LoadPc[1])
          /\ (ffmpegRef = "none" /\ pc[p] = "idle" /\ pc'[p] # "idle") =>
                pc'[p] = LoadPc[1]
          /\ (ffmpegRef = "none" /\ selectedFormat = "wav" /\ selectedFormat' = "mp3") =>
                pc'["mount"] = LoadPc[1]
      ]_vars

\* C12 witness: in the video editor the preload failed on all three sources,
\* nothing was retained, and downloadSegments' ensureFfmpeg is loading again
\* from the first source.
C12_Witness ==
    /\ editor = "video"
    /\ pc["mount"] = "done"
    /\ errors["mount"] = 1
    /\ ffmpegRef = "none"
    /\ pc["all"] = "load1"

\* C13: whenever no export invocation is running (each one that was started
\* has returned, in success or in failure), none of the working files
\* input.mp4, segment_<i>.mp4, segment.mp4, input.wav, output.mp3 exists in the
\* file system of any encoder instance.
C13_NoTransientFiles ==
    (\A p \in Procs \ {"mount"} : pc[p] = "idle") =>
        \A inst \in Procs : \A f \in FileNames : fs[inst][f] = Absent

\* C14: while an export invocation is active (started and not yet returned),
\* the split-point list does not change.
C14_NoMutationDuringExport ==
    [][(\E p \in Procs \ {"mount"} : pc[p] # "idle" /\ pc'[p] # "idle") =>
          splitPoints' = splitPoints]_vars

\* C15: an export invocation that has failed has been reported to the user by
\* exactly one error notification.
C15_OneErrorPerFailure ==
    \A p \in Procs \ {"mount"} : outcome[p] = "failed" => errors[p] = 1

\* The samples of channel c of the extracted parts, one part after the other.
RECURSIVE Concatenated(_, _)
Concatenated(parts, c) ==
    IF parts = <<>> THEN <<>>
    ELSE parts[1].channelData[c] \o Concatenated(Tail(parts), c)

\* The loop over the points array has ended (by its last turn or by a throw).
ExtractionEnded ==
    /\ extraction.points # <<>>
    /\ extraction.thrown \/ Len(extraction.parts) = Len(extraction.points) - 1

\* C16: once [0,a), [a,b) and [b,D) have been extracted with extractSegment,
\* for 0 <= a <= b <= D, every one of the three extractions has returned a
\* buffer and, for every channel, the three results concatenated are exactly
\* the samples of the source in order.
C16_RoundTrip ==
    ExtractionEnded =>
        /\ ~extraction.thrown
        /\ \A c \in DOMAIN sampleBuffer.channelData :
              Concatenated(extraction.parts, c) = sampleBuffer.channelData[c]

\* The point of list sp that has the given id (ids are unique in a list).
PointOf(sp, id) == sp[CHOOSE i \in 1..Len(sp) : sp[i].id = id]

\* C17: after updateSplitPoint(id, t) with an id that was in the list, the list
\* has the same number of points with the same ids; the point with that id has
\* time t clamped into [0, duration] and its old label; every other point has
\* its old time and label; and the list is sorted by time.
C17_UpdateChangesOnlyTime ==
    LET before == lastCall.before
    IN  (lastCall.op = "updateSplitPoint" /\ lastCall.id \in Ids(before)) =>
            /\ Len(splitPoints) = Len(before)
            /\ Ids(splitPoints) = Ids(before)
            /\ \A i \in 1..Len(splitPoints), j \in 1..Len(splitPoints) :
                  i # j => splitPoints[i].id # splitPoints[j].id
            /\ \A q \in Ids(before) :
                  PointOf(splitPoints, q) =
                      IF q = lastCall.id
                      THEN [PointOf(before, q) EXCEPT !.time = Clamp(lastCall.time, duration)]
                      ELSE PointOf(before, q)
            /\ SortedByTime(splitPoints)

\* C17 witness: of two points the first was moved behind the second, to a time
\* that had to be clamped.
C17_Witness ==
    /\ lastCall.op = "updateSplitPoint"
    /\ Len(lastCall.before) = 2
    /\ lastCall.id = lastCall.before[1].id
    /\ lastCall.time > duration
    /\ lastCall.before[2].time < duration
    /\ splitPoints[2].id = lastCall.id

\* List sp without the element at position k (positions from 1).
RemoveAt(sp, k) == [j \in 1..(Len(sp) - 1) |-> IF j < k THEN sp[j] ELSE sp[j + 1]]

\* C18 as stated: for n >= 1 segments and 1 <= i <= n, deleteSegment(i)
\* leaves one split point fewer: the list without its position n-2 (from 0)
\* when i = n, without its position i-1 (from 0) when i < n.
C18_Original ==
    LET before == lastCall.before
        n == Len(before) + 1
        i == lastCall.index
    IN  (lastCall.op = "deleteSegment" /\ i \in 1..n) =>
            /\ Len(splitPoints) = Len(before) - 1
            /\ splitPoints = RemoveAt(before, IF i = n THEN n - 1 ELSE i)

\* C18 amended: for n >= 2 segments and 1 <= i <= n, deleteSegment(i) removes
\* exactly one split point, the one at list position n-2 (from 0) when i = n
\* and the one at position i-1 (from 0) when i < n; the other split points
\* stay as they were, in their order.
C18_DeleteRemovesOne ==
    LET before == lastCall.before
        n == Len(before) + 1
        i == lastCall.index
    IN  (lastCall.op = "deleteSegment" /\ n >= 2 /\ i \in 1..n) =>
            /\ Len(splitPoints) = Len(before) - 1
            /\ splitPoints = RemoveAt(before, IF i = n THEN n - 1 ELSE i)

\* C18 witness: the first of three segments was deleted and the second split
\* point, at another time than the first, is the one that is left.
C18_Witness ==
    /\ lastCall.op = "deleteSegment"
    /\ Len(lastCall.before) = 2
    /\ lastCall.index = 1
    /\ lastCall.before[1].time # lastCall.before[2].time
    /\ splitPoints = <<lastCall.before[2]>>

\* C19: deleteSegment(i) with i outside 1..(number of split points + 1)
\* leaves the list of split points as it was.
C19_OutOfRangeNoOp ==
    (/\ lastCall.op = "deleteSegment"
     /\ lastCall.index \notin 1..(Len(lastCall.before) + 1))
        => splitPoints = lastCall.before

\* C19 witness: with two split points (three segments), deleteSegment was
\* called with an index past the last segment.
C19_Witness ==
    /\ lastCall.op = "deleteSegment"
    /\ Len(lastCall.before) = 2
    /\ lastCall.index > Len(lastCall.before) + 1
    /\ Len(splitPoints) = 2

\* C20: a split point that enters the list (addSplitPoint) has the label
\* 'Split N' with N = the number of points just before the step + 1, and a
\* point that stays in the list over a step keeps its label, whatever the
\* operation.
C20_LabelsStable ==
    [][/\ \A q \in Ids(splitPoints') \ Ids(splitPoints) :
             PointOf(splitPoints', q).label = Len(splitPoints) + 1
       /\ \A q \in Ids(splitPoints') \cap Ids(splitPoints) :
             PointOf(splitPoints', q).label = PointOf(splitPoints, q).label
      ]_vars

\* C20 witness: after a removal the only point left is still 'Split 2'.
C20_Witness ==
    /\ lastCall.op \in {"removeSplitPoint", "deleteSegment"}
    /\ Len(lastCall.before) = 2
    /\ Len(splitPoints) = 1
    /\ splitPoints[1].label = 2

\* ----------------------------------------------------- claims C21..C30

\* C21: while a video downloadSegments invocation over n segments runs, with
\* k segments done, the progress value is (k / n) * 100; it lies in 0..100,
\* is 100 exactly when k = n, and no step of the running invocation lowers it.
C21_ProgressTracksSegments ==
    [][(editor = "video" /\ pc'["all"] # "idle") =>
          LET k == job'["all"].i
              n == Len(job'["all"].points) - 1
              v == processingProgress'
          IN  /\ v[1] * n = k * 100 * v[2]
              /\ 0 <= v[1] /\ v[1] <= 100 * v[2]
              /\ (v[1] = 100 * v[2]) <=> (k = n)
              /\ pc["all"] # "idle" =>
                    v[1] * processingProgress[2] >= processingProgress[1] * v[2]
      ]_vars

\* C21 witness: the first of two segments is done and the progress is 50.
C21_Witness ==
    /\ editor = "video"
    /\ pc["all"] = "exec"
    /\ job["all"].i = 1
    /\ Len(job["all"].points) = 3
    /\ processingProgress[1] * 2 = 100 * processingProgress[2]

\* C22: an ensureFfmpeg call that is loading from source k leaves it in one
\* of three ways: source k loaded (the instance is stored and the call
\* returns, no further source is tried), source k failed and k is not the
\* last source (source k+1 is tried), or source k failed and k is the last
\* source (the failure is reported).  Source 1 is tried first, and source
\* k+1 is entered from source k only.
C22_SourcesInOrder ==
    [][\A p \in Procs :
          /\ \A k \in 1..Strategies :
                (pc[p] = LoadPc[k] /\ pc'[p] # pc[p]) =>
                    \/ /\ ffmpegRef' = p
                       /\ pc'[p] = AfterEnsure(p)
                       /\ errors'[p] = errors[p]
                    \/ /\ k < Strategies
                       /\ pc'[p] = LoadPc[k + 1]
                       /\ ffmpegRef' = ffmpegRef
                       /\ errors'[p] = errors[p]
                    \/ /\ k = Strategies
                       /\ pc'[p] \in {"idle", "done"}
                       /\ ffmpegRef' = ffmpegRef
                       /\ errors'[p] > errors[p]
          /\ \A k \in 1..Strategies :
                (pc'[p] = LoadPc[k] /\ pc[p] # pc'[p]) =>
                    IF k = 1 THEN ~Loading(p) ELSE pc[p] = LoadPc[k - 1]
          /\ pc'[p] \in {"load1", "load2", "load3"} =>
                \E k \in 1..Strategies : pc'[p] = LoadPc[k]
      ]_vars

\* C22 witness: in the video editor the first two sources have failed for the
\* preload and the third one is being tried.
C22_Witness ==
    /\ editor = "video"
    /\ pc["mount"] = "load3"
    /\ ffmpegRef = "none"
    /\ errors["mount"] = 0

\* The export of p is at an encode of its current segment: ffmpeg.exec has
\* been called for it (video), or the WAV / MP3 encode of the extracted
\* segment is under way (audio).
Encoding(p) ==
    IF editor = "video"
    THEN p \in VideoJobs /\ pc[p] \in {"exec", "read", "delete"}
    ELSE p \in AudioJobs /\ pc[p] \in {"wavbytes", "write", "exec", "read"}

\* C23: the encoder is never invoked for an empty segment: an export that is
\* at an encode is at a segment whose start lies before its end.
C23_NoEncodeOfEmptySegment ==
    \A p \in Procs : Encoding(p) => CurStart(p) < CurEnd(p)

\* C24: every index an extractSegment call of the loop has read from a source
\* channel lies in 0..length-1, and so no sample of an extracted segment is
\* the NaN of a read past the end.
C24_ReadsWithinSource ==
    \A k \in 1..Len(extraction.parts) :
        /\ readIndices(sampleBuffer, extraction.points[k], extraction.points[k + 1])
               \subseteq 0..(Length(sampleBuffer) - 1)
        /\ \A c \in DOMAIN extraction.parts[k].channelData :
              \A i \in DOMAIN extraction.parts[k].channelData[c] :
                  extraction.parts[k].channelData[c][i] # NaN

\* The points an export of p works on in a step: the list built from the
\* split points when the step starts the export, the job's own list after.
JobPoints(p) == IF pc[p] = "idle" THEN Points(splitPoints, duration) ELSE job[p].points

\* C25: an export takes its points from the split points of the moment it
\* starts (downloadSingleSegment: the range and index of the segment card)
\* and keeps them to its end; every output it delivers has the range and
\* the index those points give, a successful export has delivered one output
\* per segment of them, and the progress denominator is their segment count,
\* whatever split-point changes were made meanwhile.
C25_WorksOnSnapshot ==
    [][\A p \in Procs \ {"mount"} :
          /\ (pc[p] = "idle" /\ pc'[p] # "idle") =>
                IF p = "single"
                THEN \E k \in 1..(Len(splitPoints) + 1) :
                        LET segment == getSegments(splitPoints, duration)[k]
                        IN  /\ job'[p].points = <<segment.start, segment.end>>
                            /\ job'[p].i = segment.index
                ELSE job'[p].points = Points(splitPoints, duration)
          /\ (pc[p] # "idle" /\ pc'[p] # "idle") =>
                /\ job'[p].points = job[p].points
                /\ p = "single" => job'[p].i = job[p].i
          /\ delivered'[p] # delivered[p] =>
                \A m \in 1..Len(delivered'[p]) :
                    LET out == delivered'[p][m]
                    IN  IF p = "single"
                        THEN /\ out.start = job[p].points[1]
                             /\ out.end = job[p].points[2]
                             /\ out.index = job[p].i
                        ELSE /\ out.start = JobPoints(p)[m]
                             /\ out.end = JobPoints(p)[m + 1]
                             /\ out.index = m
          /\ (outcome'[p] = "ok" /\ outcome[p] # "ok") =>
                Len(delivered'[p]) = Len(JobPoints(p)) - 1
          /\ (editor = "video" /\ p = "all" /\ pc'[p] # "idle"
                /\ processingProgress' # processingProgress) =>
                processingProgress'[2] = Len(JobPoints(p)) - 1
      ]_vars

\* C25 witness: a video downloadSegments invocation has stored its first
\* output for the range it started with, after the split point was moved.
C25_Witness ==
    /\ editor = "video"
    /\ pc["all"] = "delete"
    /\ job["all"].points # Points(splitPoints, duration)
    /\ Len(splitPoints) = 1
    /\ Len(job["all"].segmentBlobs) = 1
    /\ job["all"].segmentBlobs[1].end = job["all"].points[2]

\* C26: while a video downloadSegments invocation has an encode still to run
\* or to finish (input.mp4 written, the last ffmpeg.exec not yet served),
\* input.mp4 is present in its encoder's file system and holds the source.
C26_InputStaysPresent ==
    (/\ editor = "video"
     /\ \/ pc["all"] = "exec"
        \/ pc["all"] \in {"read", "delete"} /\ job["all"].i + 1 < NumSegments("all"))
        => fs[ffmpeg["all"]]["input.mp4"] = Source

\* The busy indicators of the export of p are cleared.
Cleared(p) ==
    IF p = "single" THEN ~isDownloadingSegment
    ELSE IF editor = "video"
    THEN /\ ~isEncoding
         /\ ~isStartingDownload
         /\ ~buttonClicked
         /\ processingProgress[1] = 0
    ELSE ~isEncoding

\* Process p is the export that a step ends: one that was running, or an
\* audio export that runs from start to end within the step.
Ends(p) ==
    \/ pc[p] # "idle" /\ pc'[p] = "idle"
    \/ /\ pc[p] = "idle" /\ pc'[p] = "idle"
       /\ started' # started
       /\ outcome'[p] \in {"ok", "failed"}
       /\ p = AudioJob

\* C27: the step that ends an export invocation, in success or in failure,
\* leaves its busy indicators cleared; and, every load, fetch and encoder call
\* coming back, every export that is running ends.
C27_ExportsEndCleared ==
    /\ [][\A p \in Procs \ {"mount"} : Ends(p) => Cleared(p)']_vars
    /\ \A p \in Procs \ {"mount"} : (pc[p] # "idle") ~> (pc[p] = "idle" /\ Cleared(p))

\* C27 witness: a video downloadSegments invocation has failed and a single
\* export has succeeded; all indicators are cleared.
C27_Witness ==
    /\ editor = "video"
    /\ outcome["all"] = "failed"
    /\ outcome["single"] = "ok"
    /\ pc["all"] = "idle" /\ pc["single"] = "idle"
    /\ Cleared("all") /\ Cleared("single")

\* C28: the time handleAddSplitPoint hands to addSplitPoint (what
\* parseTimeInput returned for the text of the field) is never negative and
\* never above the duration.
C28_ParsedTimeInRange ==
    lastCall.op = "addSplitPoint" =>
        (0 <= lastCall.time /\ lastCall.time <= duration)

\* C29: every MP3 output an audio export has delivered holds the encoding of
\* the segment it was delivered for, not what an earlier encode run left in
\* output.mp3.
C29_Mp3FromOwnEncode ==
    editor = "audio" =>
        \A p \in AudioJobs : \A i \in 1..Len(delivered[p]) :
            delivered[p][i].ext = "mp3" =>
                delivered[p][i].content = Range(delivered[p][i].start, delivered[p][i].end)

\* C30: isFfmpegLoading is true exactly while some ensureFfmpeg call is
\* loading an encoder.
C30_LoadingFlagTracksLoads ==
    isFfmpegLoading <=> (\E p \in Procs : Loading(p))

=============================================================================
